---- MODULE Spec2Model ----
(***************************************************************************)
(* One shard of the LRU cache of cache/lru_cache.cc: the chained hash      *)
(* table (LRUHandleTable), the LRU list with its low-priority cursor, the  *)
(* reference counts of the handles and the capacity accounting.            *)
(*                                                                         *)
(* Spec   : one caller; every action is one whole public operation, from   *)
(*          taking the mutex to the last Free() after it is released.      *)
(* SpecMT : several threads; an operation is its critical section, the     *)
(*          release of the mutex and the draining of its scratch list.     *)
(***************************************************************************)
EXTENDS Integers, Sequences, FiniteSets, TLC

\* ---------------------------------------------------------------- bounds
MaxEntries == 2      \* LRUHandle records allocated by Insert over a run
MaxHandles == 2      \* unreleased handles callers hold at one time, in all
RatioDen == 2        \* high_pri_pool_ratio is a multiple of 1 / RatioDen

\* ------------------------------------------------------ program constants
NULL == 0            \* nullptr; also stands for &lru_, the list's sentinel
kInitialLength == 16 \* LRUHandleTable::Resize: new_length = 16

Entries == 1..MaxEntries
Keys == {1, 2}
Charges == {1, 2}
Capacities == {1, 3}
Ratios == {0, 1}     \* numerators: high_pri_pool_ratio 0 and 1 / RatioDen
Threads == {1, 2}

\* The caller's hash of a key: both keys fall into bucket 1 of 16, with
\* different hashes, so that FindPointer has a chain to walk.
Hash(k) == IF k = 1 THEN 1 ELSE 17

VARIABLES
  list_,                   \* LRUHandleTable::list_ : bucket -> chain of entries
  elems_,                  \* LRUHandleTable::elems_
  lru_,                    \* the LRU list, lru_.next first, lru_.prev last
  lru_low_pri_,            \* the cursor: an entry, or NULL for &lru_
  usage_, lru_usage_, high_pri_pool_usage_,
  capacity_, strict_capacity_limit_,
  high_pri_pool_ratio_,    \* numerator over RatioDen
  high_pri_pool_capacity_, \* capacity_ * high_pri_pool_ratio_, times RatioDen
  h,                       \* the LRUHandle records, by identity
  asserts,                 \* the assert()s of the source that have failed
  handles,                 \* entry -> handles callers hold and have not released
  resident,                \* key -> value of the last Insert that returned OK
                           \*        and is not yet erased or evicted, or NULL
  mutex_,                  \* SpecMT: the thread holding mutex_, or NULL
  pc,                      \* SpecMT: thread -> "idle" | "locked" | "unlocked"
  scratch,                 \* SpecMT: thread -> its last_reference_list
  freed_locked             \* SpecMT: entries whose Free() ran under the mutex

shardVars == <<list_, elems_, lru_, lru_low_pri_, usage_, lru_usage_,
               high_pri_pool_usage_, capacity_, strict_capacity_limit_,
               high_pri_pool_ratio_, high_pri_pool_capacity_, h, asserts>>
mtVars == <<mutex_, pc, scratch, freed_locked>>
vars == <<shardVars, handles, resident, mtVars>>

\* ------------------------------------------------------------- LRUHandle
\* st: "unalloc" (not yet allocated), "live", "freed" (Free(): deleter and
\* delete[]), "rejected" (delete[] without deleter, Insert's Incomplete).
\* value is the entry's own identity: every Insert brings a distinct value.
NoHandle == [key |-> 0, hash |-> 0, charge |-> 0, refs |-> 0,
             in_cache |-> FALSE, high_pri |-> FALSE, has_hit |-> FALSE,
             in_high_pri_pool |-> FALSE, st |-> "unalloc", deleter_calls |-> 0]

\* The shard as one record, so that the helpers of the source compose. The
\* field last_reference_list is the operation's local scratch list.
Cur == [list_ |-> list_, elems_ |-> elems_, lru_ |-> lru_,
        lru_low_pri_ |-> lru_low_pri_, usage_ |-> usage_,
        lru_usage_ |-> lru_usage_,
        high_pri_pool_usage_ |-> high_pri_pool_usage_,
        capacity_ |-> capacity_,
        strict_capacity_limit_ |-> strict_capacity_limit_,
        high_pri_pool_ratio_ |-> high_pri_pool_ratio_,
        high_pri_pool_capacity_ |-> high_pri_pool_capacity_,
        h |-> h, asserts |-> asserts, last_reference_list |-> <<>>]

Commit(c) ==
  /\ list_' = c.list_
  /\ elems_' = c.elems_
  /\ lru_' = c.lru_
  /\ lru_low_pri_' = c.lru_low_pri_
  /\ usage_' = c.usage_
  /\ lru_usage_' = c.lru_usage_
  /\ high_pri_pool_usage_' = c.high_pri_pool_usage_
  /\ capacity_' = c.capacity_
  /\ strict_capacity_limit_' = c.strict_capacity_limit_
  /\ high_pri_pool_ratio_' = c.high_pri_pool_ratio_
  /\ high_pri_pool_capacity_' = c.high_pri_pool_capacity_
  /\ h' = c.h
  /\ asserts' = c.asserts

Fail(c, label) == [c EXCEPT !.asserts = @ \cup {label}]

\* -------------------------------------------------------- LRUHandleTable
Bucket(hash) == hash % kInitialLength

Matches(c, e, key, hash) == c.h[e].hash = hash /\ c.h[e].key = key

\* The position in the bucket's chain of the entry with this (hash, key), or
\* one past the chain's end: the slot FindPointer's result points at.
FindPointer(c, key, hash) ==
  LET ch == c.list_[Bucket(hash)]
      hit == {i \in 1..Len(ch) : Matches(c, ch[i], key, hash)}
  IN IF hit = {} THEN Len(ch) + 1
     ELSE CHOOSE i \in hit : \A j \in hit : i <= j

Table_Lookup(c, key, hash) ==
  LET ch == c.list_[Bucket(hash)]
      p == FindPointer(c, key, hash)
  IN IF p > Len(ch) THEN NULL ELSE ch[p]

Table_Insert_append(c, e) ==
  LET b == Bucket(c.h[e].hash)
  IN [c EXCEPT !.list_[b] = Append(@, e), !.elems_ = @ + 1]

\* LRUHandleTable::Insert: e takes the place of an entry with its key, or
\* the end of the chain. (Resize needs elems_ > 16, beyond MaxEntries.)
Table_Insert(c, e) ==
  LET b == Bucket(c.h[e].hash)
      ch == c.list_[b]
      p == FindPointer(c, c.h[e].key, c.h[e].hash)
  IN IF p > Len(ch)
     THEN [c EXCEPT !.list_[b] = Append(ch, e), !.elems_ = @ + 1]
     ELSE [c EXCEPT !.list_[b] = [ch EXCEPT ![p] = e]]

RemoveAt(s, i) == SubSeq(s, 1, i - 1) \o SubSeq(s, i + 1, Len(s))

Table_Remove_keep(c, key, hash) == c

Table_Remove(c, key, hash) ==
  LET b == Bucket(hash)
      ch == c.list_[b]
      p == FindPointer(c, key, hash)
  IN IF p > Len(ch) THEN c
     ELSE [c EXCEPT !.list_[b] = RemoveAt(ch, p), !.elems_ = @ - 1]

\* --------------------------------------------------------------- LRU list
OnLRU(c, e) == \E i \in 1..Len(c.lru_) : c.lru_[i] = e

\* Position of an entry on the list; 0 for the sentinel.
Pos(c, e) == IF e = NULL THEN 0 ELSE CHOOSE i \in 1..Len(c.lru_) : c.lru_[i] = e

Unref(c, e) ==
  IF c.h[e].refs > 0 THEN [c EXCEPT !.h[e].refs = @ - 1]
  ELSE Fail(c, "Unref")

\* Unref's result, line 126: this decrement takes refs to 0.
UnrefIsLast_any(c, e) == c.h[e].refs >= 1

UnrefIsLast(c, e) == c.h[e].refs = 1

UsageSub(c, e) == [c EXCEPT !.usage_ = @ - c.h[e].charge]

UsageAdd(c, e) == [c EXCEPT !.usage_ = @ + c.h[e].charge]

LRU_Remove_keepPoolUsage(c, e) ==
  IF ~OnLRU(c, e) THEN Fail(c, "LRU_Remove")
  ELSE
    LET i == Pos(c, e)
        prev == IF i = 1 THEN NULL ELSE c.lru_[i - 1]
    IN [c EXCEPT !.lru_low_pri_ = IF @ = e THEN prev ELSE @,
                 !.lru_ = RemoveAt(@, i),
                 !.lru_usage_ = @ - c.h[e].charge]

LRU_Remove(c, e) ==
  IF ~OnLRU(c, e) THEN Fail(c, "LRU_Remove")
  ELSE
    LET i == Pos(c, e)
        prev == IF i = 1 THEN NULL ELSE c.lru_[i - 1]
        c1 == [c EXCEPT !.lru_low_pri_ = IF @ = e THEN prev ELSE @,
                        !.lru_ = RemoveAt(@, i),
                        !.lru_usage_ = @ - c.h[e].charge]
    IN IF c.h[e].in_high_pri_pool
       THEN IF c1.high_pri_pool_usage_ >= c.h[e].charge
            THEN [c1 EXCEPT !.high_pri_pool_usage_ = @ - c.h[e].charge]
            ELSE Fail(c1, "LRU_Remove")
       ELSE c1

RECURSIVE MaintainPoolSize_keepFlag(_)
MaintainPoolSize_keepFlag(c) ==
  IF c.high_pri_pool_usage_ * RatioDen > c.high_pri_pool_capacity_
  THEN LET p == Pos(c, c.lru_low_pri_)
       IN IF p = Len(c.lru_) THEN Fail(c, "MaintainPoolSize")
          ELSE LET n == c.lru_[p + 1]
               IN MaintainPoolSize_keepFlag(
                    [c EXCEPT !.lru_low_pri_ = n,
                              !.high_pri_pool_usage_ = @ - c.h[n].charge])
  ELSE c

RECURSIVE MaintainPoolSize(_)
MaintainPoolSize(c) ==
  IF c.high_pri_pool_usage_ * RatioDen > c.high_pri_pool_capacity_
  THEN LET p == Pos(c, c.lru_low_pri_)
       IN IF p = Len(c.lru_) THEN Fail(c, "MaintainPoolSize")
          ELSE LET n == c.lru_[p + 1]
               IN MaintainPoolSize(
                    [c EXCEPT !.lru_low_pri_ = n,
                              !.h[n].in_high_pri_pool = FALSE,
                              !.high_pri_pool_usage_ = @ - c.h[n].charge])
  ELSE c

LRU_Insert_front(c, e) ==
  LET c1 ==
        IF c.high_pri_pool_ratio_ > 0 /\ (c.h[e].high_pri \/ c.h[e].has_hit)
        THEN MaintainPoolSize(
               [c EXCEPT !.lru_ = Append(@, e),
                         !.h[e].in_high_pri_pool = TRUE,
                         !.high_pri_pool_usage_ = @ + c.h[e].charge])
        ELSE [c EXCEPT !.lru_ = <<e>> \o @,
                       !.h[e].in_high_pri_pool = FALSE,
                       !.lru_low_pri_ = IF @ = NULL THEN e ELSE @]
  IN [c1 EXCEPT !.lru_usage_ = @ + c.h[e].charge]

LRU_Insert(c, e) ==
  LET c1 ==
        IF c.high_pri_pool_ratio_ > 0 /\ (c.h[e].high_pri \/ c.h[e].has_hit)
        THEN MaintainPoolSize(
               [c EXCEPT !.lru_ = Append(@, e),
                         !.h[e].in_high_pri_pool = TRUE,
                         !.high_pri_pool_usage_ = @ + c.h[e].charge])
        ELSE LET p == Pos(c, c.lru_low_pri_)
             IN [c EXCEPT !.lru_ = SubSeq(@, 1, p) \o <<e>>
                                     \o SubSeq(@, p + 1, Len(@)),
                          !.h[e].in_high_pri_pool = FALSE,
                          !.lru_low_pri_ = e]
  IN [c1 EXCEPT !.lru_usage_ = @ + c.h[e].charge]

RECURSIVE EvictFromLRU_fromTail(_, _)
EvictFromLRU_fromTail(c, charge) ==
  IF c.usage_ + charge > c.capacity_ /\ c.lru_ # <<>>
  THEN LET old == c.lru_[Len(c.lru_)]
           a == IF c.h[old].in_cache /\ c.h[old].refs = 1 THEN c
                ELSE Fail(c, "EvictFromLRU")
           c1 == LRU_Remove(a, old)
           c2 == Table_Remove(c1, c1.h[old].key, c1.h[old].hash)
           c3 == Unref([c2 EXCEPT !.h[old].in_cache = FALSE], old)
           c4 == UsageSub(c3, old)
       IN EvictFromLRU_fromTail(
            [c4 EXCEPT !.last_reference_list = Append(@, old)], charge)
  ELSE c

RECURSIVE EvictFromLRU(_, _)
EvictFromLRU(c, charge) ==
  IF c.usage_ + charge > c.capacity_ /\ c.lru_ # <<>>
  THEN LET old == c.lru_[1]
           a == IF c.h[old].in_cache /\ c.h[old].refs = 1 THEN c
                ELSE Fail(c, "EvictFromLRU")
           c1 == LRU_Remove(a, old)
           c2 == Table_Remove(c1, c1.h[old].key, c1.h[old].hash)
           c3 == Unref([c2 EXCEPT !.h[old].in_cache = FALSE], old)
           c4 == UsageSub(c3, old)
       IN EvictFromLRU(
            [c4 EXCEPT !.last_reference_list = Append(@, old)], charge)
  ELSE c

\* LRUHandle::Free (cache/lru_cache.h): the deleter, then delete[].
Free(c, e) ==
  [c EXCEPT !.h[e] = [NoHandle EXCEPT !.st = "freed",
                                      !.deleter_calls = c.h[e].deleter_calls + 1]]

\* The drain after the mutex is released: for (auto entry : ...) entry->Free().
FreeAll_none(c, list) == c

RECURSIVE FreeAll(_, _)
FreeAll(c, list) ==
  IF list = <<>> THEN c ELSE FreeAll(Free(c, Head(list)), Tail(list))

Range(s) == {s[i] : i \in 1..Len(s)}

\* ------------------------------------------- critical sections (mutex held)
\* Each yields [c: the shard when the mutex is released, with the victims in
\* c.last_reference_list; plus what the operation will return].

\* Insert, lines 369-386: the record is built before the mutex is taken.
NewHandle(key, charge, high_pri, want_handle) ==
  [key |-> key, hash |-> Hash(key), charge |-> charge,
   refs |-> IF want_handle THEN 2 ELSE 1,
   in_cache |-> TRUE, high_pri |-> high_pri, has_hit |-> FALSE,
   in_high_pri_pool |-> FALSE, st |-> "live", deleter_calls |-> 0]

InsertRefused_noHandleOnly(c, charge, want_handle) ==
  /\ c.usage_ - c.lru_usage_ + charge > c.capacity_
  /\ ~want_handle

InsertRefused_always(c, charge, want_handle) ==
  c.usage_ - c.lru_usage_ + charge > c.capacity_

\* Insert, line 395: no room, and the caller is strict or wants no handle.
InsertRefused(c, charge, want_handle) ==
  /\ c.usage_ - c.lru_usage_ + charge > c.capacity_
  /\ (c.strict_capacity_limit_ \/ ~want_handle)

DisplaceOld_keepInCache(c, old) ==
  IF old = NULL THEN c
  ELSE LET last == UnrefIsLast(c, old)
           u == Unref(c, old)
       IN IF last
          THEN [LRU_Remove(UsageSub(u, old), old)
                  EXCEPT !.last_reference_list = Append(@, old)]
          ELSE u

DisplaceOld_keepUsage(c, old) ==
  IF old = NULL THEN c
  ELSE LET last == UnrefIsLast(c, old)
           u == Unref([c EXCEPT !.h[old].in_cache = FALSE], old)
       IN IF last
          THEN [LRU_Remove(u, old)
                  EXCEPT !.last_reference_list = Append(@, old)]
          ELSE u

\* Insert, lines 412-421: the entry table_.Insert displaced.
DisplaceOld(c, old) ==
  IF old = NULL THEN c
  ELSE LET last == UnrefIsLast(c, old)
           u == Unref([c EXCEPT !.h[old].in_cache = FALSE], old)
       IN IF last
          THEN [LRU_Remove(UsageSub(u, old), old)
                  EXCEPT !.last_reference_list = Append(@, old)]
          ELSE u

Insert_locked(c0, e, want_handle) ==
  LET charge == c0.h[e].charge
      c1 == EvictFromLRU(c0, charge)
  IN IF InsertRefused(c1, charge, want_handle)
     THEN IF ~want_handle
          THEN [c |-> [c1 EXCEPT !.last_reference_list = Append(@, e)],
                s |-> "OK", handle |-> NULL, admitted |-> FALSE]
          ELSE [c |-> [c1 EXCEPT !.h[e] = [NoHandle EXCEPT !.st = "rejected"]],
                s |-> "Incomplete", handle |-> NULL, admitted |-> FALSE]
     ELSE LET old == Table_Lookup(c1, c1.h[e].key, c1.h[e].hash)
              c2 == UsageAdd(Table_Insert(c1, e), e)
              c3 == DisplaceOld(c2, old)
              c4 == IF ~want_handle THEN LRU_Insert(c3, e) ELSE c3
          IN [c |-> c4, s |-> "OK",
              handle |-> IF want_handle THEN e ELSE NULL, admitted |-> TRUE]

Lookup_locked_noHit(c, key, hash) ==
  LET e == Table_Lookup(c, key, hash)
  IN IF e = NULL THEN [c |-> c, handle |-> NULL]
     ELSE LET a == IF c.h[e].in_cache THEN c ELSE Fail(c, "Lookup")
              c1 == IF a.h[e].refs = 1 THEN LRU_Remove(a, e) ELSE a
          IN [c |-> [c1 EXCEPT !.h[e].refs = @ + 1], handle |-> e]

Lookup_locked_noUnlink(c, key, hash) ==
  LET e == Table_Lookup(c, key, hash)
  IN IF e = NULL THEN [c |-> c, handle |-> NULL]
     ELSE [c |-> [c EXCEPT !.h[e].refs = @ + 1, !.h[e].has_hit = TRUE],
           handle |-> e]

Lookup_locked(c, key, hash) ==
  LET e == Table_Lookup(c, key, hash)
  IN IF e = NULL THEN [c |-> c, handle |-> NULL]
     ELSE LET a == IF c.h[e].in_cache THEN c ELSE Fail(c, "Lookup")
              c1 == IF a.h[e].refs = 1 THEN LRU_Remove(a, e) ELSE a
          IN [c |-> [c1 EXCEPT !.h[e].refs = @ + 1, !.h[e].has_hit = TRUE],
              handle |-> e]

Ref_locked_noCount(c, e) ==
  IF c.h[e].in_cache /\ c.h[e].refs = 1 THEN LRU_Remove(c, e) ELSE c

Ref_locked(c, e) ==
  LET c1 == IF c.h[e].in_cache /\ c.h[e].refs = 1 THEN LRU_Remove(c, e) ELSE c
  IN [c1 EXCEPT !.h[e].refs = @ + 1]

ReleaseErases_usageOnly(c, force_erase) == c.usage_ > c.capacity_

ReleaseErases_forceOnly(c, force_erase) == force_erase

\* Release, line 337.
ReleaseErases(c, force_erase) == c.usage_ > c.capacity_ \/ force_erase

StillCached_anyUnpinned(c, e) == c.h[e].refs = 1

\* Release, line 335: only the cache's own reference is left.
StillCached(c, e) == c.h[e].refs = 1 /\ c.h[e].in_cache

\* Release, lines 331-351; last is the value Release returns.
Release_locked(c, e, force_erase) ==
  LET last0 == UnrefIsLast(c, e)
      u == Unref(c, e)
      c1 == IF last0 THEN UsageSub(u, e) ELSE u
  IN IF StillCached(c1, e)
     THEN IF ReleaseErases(c1, force_erase)
          THEN LET a == IF c1.usage_ > c1.capacity_ /\ c1.lru_ # <<>>
                        THEN Fail(c1, "Release") ELSE c1
                   c2 == Table_Remove(a, a.h[e].key, a.h[e].hash)
                   c3 == Unref([c2 EXCEPT !.h[e].in_cache = FALSE], e)
               IN [c |-> UsageSub(c3, e), last |-> TRUE]
          ELSE [c |-> LRU_Insert(c1, e), last |-> FALSE]
     ELSE [c |-> c1, last |-> last0]

\* Erase, lines 447-457; last is last_reference, e the entry found.
Erase_locked(c, key, hash) ==
  LET e == Table_Lookup(c, key, hash)
  IN IF e = NULL THEN [c |-> c, e |-> NULL, last |-> FALSE]
     ELSE LET last == UnrefIsLast(c, e)
              c1 == Unref(Table_Remove(c, key, hash), e)
              c2 == IF last /\ c1.h[e].in_cache THEN LRU_Remove(c1, e) ELSE c1
              c3 == IF last THEN UsageSub(c2, e) ELSE c2
          IN [c |-> [c3 EXCEPT !.h[e].in_cache = FALSE], e |-> e, last |-> last]

RECURSIVE EraseUnRefEntries_locked(_)
EraseUnRefEntries_locked(c) ==
  IF c.lru_ # <<>>
  THEN LET old == c.lru_[1]
           a == IF c.h[old].in_cache /\ c.h[old].refs = 1 THEN c
                ELSE Fail(c, "EraseUnRefEntries")
           c1 == LRU_Remove(a, old)
           c2 == Table_Remove(c1, c1.h[old].key, c1.h[old].hash)
           c3 == Unref([c2 EXCEPT !.h[old].in_cache = FALSE], old)
           c4 == UsageSub(c3, old)
       IN EraseUnRefEntries_locked(
            [c4 EXCEPT !.last_reference_list = Append(@, old)])
  ELSE c

SetCapacity_locked(c, capacity) ==
  EvictFromLRU([c EXCEPT !.capacity_ = capacity,
                         !.high_pri_pool_capacity_ =
                            capacity * c.high_pri_pool_ratio_], 0)

SetHighPriorityPoolRatio_locked(c, ratio) ==
  MaintainPoolSize([c EXCEPT !.high_pri_pool_ratio_ = ratio,
                             !.high_pri_pool_capacity_ = c.capacity_ * ratio])

\* ------------------------------------------------------------------ Init
\* The shard after its constructor (lines 104-117): an empty table of 16
\* buckets, an empty circular list, SetCapacity(capacity) on nothing.
Init ==
  /\ list_ = [b \in 0..(kInitialLength - 1) |-> <<>>]
  /\ elems_ = 0
  /\ lru_ = <<>>
  /\ lru_low_pri_ = NULL
  /\ usage_ = 0
  /\ lru_usage_ = 0
  /\ high_pri_pool_usage_ = 0
  /\ capacity_ \in Capacities
  /\ strict_capacity_limit_ \in BOOLEAN
  /\ high_pri_pool_ratio_ \in Ratios
  /\ high_pri_pool_capacity_ = capacity_ * high_pri_pool_ratio_
  /\ h = [e \in Entries |-> NoHandle]
  /\ asserts = {}
  /\ handles = [e \in Entries |-> 0]
  /\ resident = [k \in Keys |-> NULL]
  /\ mutex_ = NULL
  /\ pc = [t \in Threads |-> "idle"]
  /\ scratch = [t \in Threads |-> <<>>]
  /\ freed_locked = {}

RECURSIVE Sum(_, _)
Sum(f, S) == IF S = {} THEN 0
             ELSE LET x == CHOOSE y \in S : TRUE IN f[x] + Sum(f, S \ {x})

\* The callers take another handle only while they hold fewer than MaxHandles.
MayPin == Sum(handles, Entries) < MaxHandles

\* The record the next Insert allocates.
NewId == CHOOSE e \in Entries :
           h[e].st = "unalloc" /\ \A f \in Entries : h[f].st = "unalloc" => e <= f

\* resident once the entries in victims have left the cache.
Gone(res, victims) == [k \in Keys |-> IF res[k] \in victims THEN NULL ELSE res[k]]

\* Insert's critical section on the record it has just built.
InsertCall(key, charge, high_pri, want_handle) ==
  Insert_locked(
    [Cur EXCEPT !.h[NewId] = NewHandle(key, charge, high_pri, want_handle)],
    NewId, want_handle)

\* ------------------------------------------- Spec: whole operations, one caller
Insert(key, charge, high_pri, want_handle) ==
  /\ \E e \in Entries : h[e].st = "unalloc"
  /\ want_handle => MayPin
  /\ LET e == NewId
         r == InsertCall(key, charge, high_pri, want_handle)
     IN /\ Commit(FreeAll(r.c, r.c.last_reference_list))
        /\ handles' = IF r.handle # NULL THEN [handles EXCEPT ![e] = 1]
                      ELSE handles
        /\ resident' =
             IF r.admitted
             THEN [Gone(resident, Range(r.c.last_reference_list))
                     EXCEPT ![key] = e]
             ELSE IF r.s = "OK"
                  THEN [Gone(resident, Range(r.c.last_reference_list))
                          EXCEPT ![key] = NULL]
                  ELSE Gone(resident, Range(r.c.last_reference_list))
  /\ UNCHANGED mtVars

Lookup(key) ==
  LET r == Lookup_locked(Cur, key, Hash(key))
  IN /\ r.handle # NULL => MayPin
     /\ Commit(r.c)
     /\ handles' = IF r.handle # NULL THEN [handles EXCEPT ![r.handle] = @ + 1]
                   ELSE handles
     /\ UNCHANGED <<resident, mtVars>>

Ref(e) ==
  /\ handles[e] >= 1
  /\ MayPin
  /\ Commit(Ref_locked(Cur, e))
  /\ handles' = [handles EXCEPT ![e] = @ + 1]
  /\ UNCHANGED <<resident, mtVars>>

\* Release as a whole, lines 322-359: c is the shard when it returns, after
\* its Free(); ret is the value it returns.
ReleaseCall(e, force_erase) ==
  LET r == Release_locked(Cur, e, force_erase)
  IN [c |-> IF r.last THEN Free(r.c, e) ELSE r.c, ret |-> r.last]

Release(e, force_erase) ==
  /\ handles[e] >= 1
  /\ LET r == ReleaseCall(e, force_erase)
     IN /\ Commit(r.c)
        /\ resident' = IF r.ret THEN Gone(resident, {e}) ELSE resident
  /\ handles' = [handles EXCEPT ![e] = @ - 1]
  /\ UNCHANGED mtVars

\* Erase as a whole, lines 441-465: c is the shard when it returns, after
\* its Free(); e is the entry it found, or NULL.
EraseCall(key) ==
  LET r == Erase_locked(Cur, key, Hash(key))
  IN [c |-> IF r.last THEN Free(r.c, r.e) ELSE r.c, e |-> r.e]

Erase(key) ==
  /\ Commit(EraseCall(key).c)
  /\ resident' = [resident EXCEPT ![key] = NULL]
  /\ UNCHANGED <<handles, mtVars>>

EraseUnRefEntries ==
  LET c == EraseUnRefEntries_locked(Cur)
  IN /\ Commit(FreeAll(c, c.last_reference_list))
     /\ resident' = Gone(resident, Range(c.last_reference_list))
     /\ UNCHANGED <<handles, mtVars>>

SetCapacity(capacity) ==
  LET c == SetCapacity_locked(Cur, capacity)
  IN /\ Commit(FreeAll(c, c.last_reference_list))
     /\ resident' = Gone(resident, Range(c.last_reference_list))
     /\ UNCHANGED <<handles, mtVars>>

SetStrictCapacityLimit(strict_capacity_limit) ==
  /\ Commit([Cur EXCEPT !.strict_capacity_limit_ = strict_capacity_limit])
  /\ UNCHANGED <<handles, resident, mtVars>>

SetHighPriorityPoolRatio(ratio) ==
  /\ Commit(SetHighPriorityPoolRatio_locked(Cur, ratio))
  /\ UNCHANGED <<handles, resident, mtVars>>

Next ==
  \/ \E key \in Keys, charge \in Charges, high_pri \in BOOLEAN,
        want_handle \in BOOLEAN : Insert(key, charge, high_pri, want_handle)
  \/ \E key \in Keys : Lookup(key)
  \/ \E e \in Entries : Ref(e)
  \/ \E e \in Entries, force_erase \in BOOLEAN : Release(e, force_erase)
  \/ \E key \in Keys : Erase(key)
  \/ EraseUnRefEntries
  \/ \E capacity \in Capacities : SetCapacity(capacity)
  \/ \E b \in BOOLEAN : SetStrictCapacityLimit(b)
  \/ \E ratio \in Ratios : SetHighPriorityPoolRatio(ratio)

Spec == Init /\ [][Next]_vars

\* --------------------------------------- SpecMT: threads sharing the shard
\* A thread's operation is three steps. The critical section is one step,
\* since mutex_ excludes every other thread from the shard's fields while it
\* runs: it ends with the thread still inside the MutexLock scope
\* ("locked"), its victims in its scratch list. Leaving the scope releases
\* the mutex ("unlocked" while victims wait); the drain then frees them.
Locked(t, c, victims) ==
  /\ pc[t] = "idle"
  /\ mutex_ = NULL
  /\ Commit(c)
  /\ mutex_' = t
  /\ pc' = [pc EXCEPT ![t] = "locked"]
  /\ scratch' = [scratch EXCEPT ![t] = victims]
  /\ UNCHANGED <<freed_locked, resident>>

MT_Insert(t, key, charge, high_pri, want_handle) ==
  /\ \E e \in Entries : h[e].st = "unalloc"
  /\ want_handle => MayPin
  /\ LET r == InsertCall(key, charge, high_pri, want_handle)
     IN /\ Locked(t, r.c, r.c.last_reference_list)
        /\ handles' = IF r.handle # NULL THEN [handles EXCEPT ![NewId] = 1]
                      ELSE handles

MT_Lookup(t, key) ==
  LET r == Lookup_locked(Cur, key, Hash(key))
  IN /\ r.handle # NULL => MayPin
     /\ Locked(t, r.c, <<>>)
     /\ handles' = IF r.handle # NULL THEN [handles EXCEPT ![r.handle] = @ + 1]
                   ELSE handles

MT_Ref(t, e) ==
  /\ handles[e] >= 1
  /\ MayPin
  /\ Locked(t, Ref_locked(Cur, e), <<>>)
  /\ handles' = [handles EXCEPT ![e] = @ + 1]

MT_Release(t, e, force_erase) ==
  /\ handles[e] >= 1
  /\ LET r == Release_locked(Cur, e, force_erase)
     IN Locked(t, r.c, IF r.last THEN <<e>> ELSE <<>>)
  /\ handles' = [handles EXCEPT ![e] = @ - 1]

MT_Erase(t, key) ==
  LET r == Erase_locked(Cur, key, Hash(key))
  IN /\ Locked(t, r.c, IF r.last THEN <<r.e>> ELSE <<>>)
     /\ UNCHANGED handles

MT_EraseUnRefEntries(t) ==
  LET c == EraseUnRefEntries_locked(Cur)
  IN /\ Locked(t, c, c.last_reference_list)
     /\ UNCHANGED handles

MT_SetCapacity(t, capacity) ==
  LET c == SetCapacity_locked(Cur, capacity)
  IN /\ Locked(t, c, c.last_reference_list)
     /\ UNCHANGED handles

MT_SetStrictCapacityLimit(t, strict_capacity_limit) ==
  /\ Locked(t, [Cur EXCEPT !.strict_capacity_limit_ = strict_capacity_limit],
            <<>>)
  /\ UNCHANGED handles

MT_SetHighPriorityPoolRatio(t, ratio) ==
  /\ Locked(t, SetHighPriorityPoolRatio_locked(Cur, ratio), <<>>)
  /\ UNCHANGED handles

\* The closing brace of the MutexLock scope. With nothing to free, the drain
\* that follows does nothing and the operation has returned.
MT_Unlock(t) ==
  /\ pc[t] = "locked"
  /\ mutex_ = t
  /\ mutex_' = NULL
  /\ pc' = [pc EXCEPT ![t] = IF scratch[t] = <<>> THEN "idle" ELSE "unlocked"]
  /\ UNCHANGED <<shardVars, handles, resident, scratch, freed_locked>>

DrainReady_inScope(t) == pc[t] \in {"locked", "unlocked"} /\ scratch[t] # <<>>

\* Where the operations free their victims: after the MutexLock scope.
DrainReady(t) == pc[t] = "unlocked"

\* "free the entries here outside of mutex": the deleters run, and the
\* operation returns.
MT_Drain(t) ==
  /\ DrainReady(t)
  /\ h' = FreeAll(Cur, scratch[t]).h
  /\ freed_locked' = IF mutex_ = t THEN freed_locked \cup Range(scratch[t])
                     ELSE freed_locked
  /\ scratch' = [scratch EXCEPT ![t] = <<>>]
  /\ pc' = [pc EXCEPT ![t] = IF mutex_ = t THEN "locked" ELSE "idle"]
  /\ UNCHANGED <<list_, elems_, lru_, lru_low_pri_, usage_, lru_usage_,
                 high_pri_pool_usage_, capacity_, strict_capacity_limit_,
                 high_pri_pool_ratio_, high_pri_pool_capacity_, asserts,
                 handles, resident, mutex_>>

NextMT ==
  \E t \in Threads :
    \/ \E key \in Keys, charge \in Charges, high_pri \in BOOLEAN,
          want_handle \in BOOLEAN :
         MT_Insert(t, key, charge, high_pri, want_handle)
    \/ \E key \in Keys : MT_Lookup(t, key)
    \/ \E e \in Entries : MT_Ref(t, e)
    \/ \E e \in Entries, force_erase \in BOOLEAN : MT_Release(t, e, force_erase)
    \/ \E key \in Keys : MT_Erase(t, key)
    \/ MT_EraseUnRefEntries(t)
    \/ \E capacity \in Capacities : MT_SetCapacity(t, capacity)
    \/ \E b \in BOOLEAN : MT_SetStrictCapacityLimit(t, b)
    \/ \E ratio \in Ratios : MT_SetHighPriorityPoolRatio(t, ratio)
    \/ MT_Unlock(t)
    \/ MT_Drain(t)

SpecMT == Init /\ [][NextMT]_vars

\* ------------------------- SpecZeroRatio: high_pri_pool_ratio fixed at 0
\* The shard constructed with high_pri_pool_ratio = 0, whose callers never
\* set another ratio.
InitZeroRatio == Init /\ high_pri_pool_ratio_ = 0

NextZeroRatio ==
  \/ \E key \in Keys, charge \in Charges, high_pri \in BOOLEAN,
        want_handle \in BOOLEAN : Insert(key, charge, high_pri, want_handle)
  \/ \E key \in Keys : Lookup(key)
  \/ \E e \in Entries : Ref(e)
  \/ \E e \in Entries, force_erase \in BOOLEAN : Release(e, force_erase)
  \/ \E key \in Keys : Erase(key)
  \/ EraseUnRefEntries
  \/ \E capacity \in Capacities : SetCapacity(capacity)
  \/ \E b \in BOOLEAN : SetStrictCapacityLimit(b)
  \/ SetHighPriorityPoolRatio(0)

SpecZeroRatio == InitZeroRatio /\ [][NextZeroRatio]_vars

\* ---------------- SpecStrict: strict_capacity_limit set, capacity not lowered
\* The shard constructed with strict_capacity_limit = true, whose callers
\* never clear it and call SetCapacity only with the capacity or more.
InitStrict == Init /\ strict_capacity_limit_

NextStrict ==
  \/ \E key \in Keys, charge \in Charges, high_pri \in BOOLEAN,
        want_handle \in BOOLEAN : Insert(key, charge, high_pri, want_handle)
  \/ \E key \in Keys : Lookup(key)
  \/ \E e \in Entries : Ref(e)
  \/ \E e \in Entries, force_erase \in BOOLEAN : Release(e, force_erase)
  \/ \E key \in Keys : Erase(key)
  \/ EraseUnRefEntries
  \/ \E capacity \in Capacities : capacity >= capacity_ /\ SetCapacity(capacity)
  \/ SetStrictCapacityLimit(TRUE)
  \/ \E ratio \in Ratios : SetHighPriorityPoolRatio(ratio)

SpecStrict == InitStrict /\ [][NextStrict]_vars

\* ----------------------------------------------------------------- claims
Live == {e \in Entries : h[e].st = "live"}
InCache == {e \in Live : h[e].in_cache}
Listed == Range(lru_)
Charge == [e \in Entries |-> h[e].charge]

\* C1: an entry is never freed while a caller holds an unreleased handle to
\* it: every entry with an outstanding handle is still allocated, its
\* deleter not yet invoked.
C1_HandleStaysValid ==
  \A e \in Entries : handles[e] > 0 => h[e].st = "live" /\ h[e].deleter_calls = 0

\* A handle is outstanding on an entry that has been erased or replaced.
C1_Witness ==
  \E e \in Entries : handles[e] > 0 /\ h[e].st = "live" /\ ~h[e].in_cache

\* C2: between operations usage exceeds capacity only when the LRU list is
\* empty, and the assertion of Release (line 340) has never failed.
C2_OverCapacityOnlyWhenDrained ==
  /\ usage_ > capacity_ => lru_ = <<>>
  /\ "Release" \notin asserts

\* Usage is above capacity (held there by pinned entries).
C2_Witness == usage_ > capacity_ /\ lru_ = <<>> /\ InCache # {}

\* C3, as claimed: usage is the total charge of the entries in the cache.
C3_UsageIsInCacheCharge == usage_ = Sum(Charge, InCache)

\* C3, amended: usage is the total charge of the entries in the cache and of
\* the entries out of the cache that a caller still holds a handle to.
C3_UsageIsUnfreedCharge ==
  usage_ = Sum(Charge, {e \in Live : h[e].in_cache \/ handles[e] > 0})

\* Usage counts an entry that is out of the cache and still pinned.
C3_Witness ==
  \E e \in Live : ~h[e].in_cache /\ handles[e] > 0 /\ usage_ >= h[e].charge
                  /\ usage_ > Sum(Charge, InCache)

\* C4: the LRU list holds exactly the in-cache entries with refs = 1, each
\* once, and lru_usage is their total charge.
C4_ListIsUnpinnedInCache ==
  /\ Listed = {e \in InCache : h[e].refs = 1}
  /\ Cardinality(Listed) = Len(lru_)
  /\ lru_usage_ = Sum(Charge, Listed)

\* One in-cache entry is pinned and off the list while another is listed.
C4_Witness ==
  /\ \E e \in InCache : h[e].refs >= 2 /\ e \notin Listed
  /\ Listed # {}

\* C5: the deleter of an entry is invoked at most once, and has been invoked
\* once its last reference is gone: between operations every allocated
\* entry either is referenced and undeleted or has been deleted exactly once.
C5_DeleterExactlyOnce ==
  \A e \in Entries :
    /\ h[e].deleter_calls <= 1
    /\ h[e].st = "live" => h[e].refs >= 1 /\ h[e].deleter_calls = 0
    /\ h[e].st = "freed" => h[e].deleter_calls = 1

\* Every entry of the run has been freed, each by one call of its deleter.
C5_Witness == \A e \in Entries : h[e].st = "freed" /\ h[e].deleter_calls = 1

\* C7, as claimed: with a positive ratio the high-pri pool's usage is within
\* capacity * ratio between operations.
C7_HighPriPoolWithinCapacity ==
  high_pri_pool_ratio_ > 0 =>
    high_pri_pool_usage_ * RatioDen <= capacity_ * high_pri_pool_ratio_

\* C8: Insert returns Incomplete exactly when pinned usage plus the new
\* charge exceeds capacity, strict_capacity_limit is set and a handle was
\* asked for; the handle is then null, the entry is not in the table and its
\* charge is not in usage (pinned usage is as before). Every other Insert
\* returns OK. (An Insert step is one that allocates NewId; where it leaves
\* the record live, the record tells the key and charge it was called with.)
C8_IncompleteExactly ==
  [][(\E f \in Entries : h[f].st = "unalloc" /\ h'[f].st # "unalloc") =>
     LET e == NewId
         live == h'[e].st = "live"
     IN \A key \in IF live THEN {h'[e].key} ELSE Keys,
           charge \in IF live THEN {h'[e].charge} ELSE Charges,
           high_pri \in IF live THEN {h'[e].high_pri} ELSE BOOLEAN,
           want_handle \in IF live THEN {handles'[e] = 1} ELSE BOOLEAN :
          Insert(key, charge, high_pri, want_handle) =>
            LET r == InsertCall(key, charge, high_pri, want_handle)
            IN /\ r.s = "Incomplete" <=>
                    /\ usage_ - lru_usage_ + charge > capacity_
                    /\ strict_capacity_limit_
                    /\ want_handle
               /\ r.s = "Incomplete" =>
                    /\ r.handle = NULL
                    /\ handles'[e] = 0
                    /\ \A k \in Keys : Table_Lookup(Cur', k, Hash(k)) # e
                    /\ usage_' - lru_usage_' = usage_ - lru_usage_
               /\ r.s # "Incomplete" => r.s = "OK"]_vars

\* An Insert has been refused: its record was deleted without its deleter.
C8_Witness == \E e \in Entries : h[e].st = "rejected"

\* C9, as claimed: after a no-handle Insert(k) that finds no room, the table
\* holds no entry for k, as if the new entry had been admitted, displacing
\* any older entry for k, and then evicted.
C9_SilentDropLeavesKeyAbsent ==
  [][\A key \in Keys, charge \in Charges, high_pri \in BOOLEAN :
       (/\ Insert(key, charge, high_pri, FALSE)
        /\ usage_ - lru_usage_ + charge > capacity_)
       => /\ InsertCall(key, charge, high_pri, FALSE).s = "OK"
          /\ Table_Lookup(Cur', key, Hash(key)) = NULL]_vars

\* C10, as claimed: Lookup(k) finds an entry exactly when an Insert(k) that
\* returned OK has occurred since the last Erase(k) or eviction of k's
\* entry, and it is the entry of the most recent such Insert.
C10_LookupFollowsHistory ==
  \A k \in Keys : Table_Lookup(Cur, k, Hash(k)) = resident[k]

\* C6: no thread invokes an entry's deleter while it holds the shard's
\* mutex: every Free() of a victim runs after its thread released mutex_.
C6_NoFreeUnderMutex ==
  /\ freed_locked = {}
  /\ \A t \in Threads : mutex_ = t => pc[t] = "locked"

\* One thread has freed a victim while another one is inside its critical
\* section with victims of its own to free.
C6_Witness ==
  /\ \E e \in Entries : h[e].st = "freed"
  /\ \E t \in Threads : mutex_ = t /\ scratch[t] # <<>>

\* Is s the front of the sequence t?
IsPrefix(s, t) == Len(s) <= Len(t) /\ s = SubSeq(t, 1, Len(s))

\* C11: with high_pri_pool_ratio fixed at 0 evictions follow strict LRU
\* order. The list is a queue in the order the entries became evictable: a
\* step leaves the entries that stay listed in their order and puts an entry
\* it lists (a no-handle Insert, or the Release that drops it to refs = 1)
\* behind all of them; and the entries EvictFromLRU evicts, from Insert or
\* from SetCapacity, are the front of that queue, oldest first, and are freed
\* by the step.
C11_EvictsLeastRecentlyListed ==
  [][/\ LET stay == SelectSeq(lru_, LAMBDA e : e \in Range(lru_'))
        IN \/ lru_' = stay
           \/ \E e \in Entries \ Range(lru_) : lru_' = Append(stay, e)
     /\ \A key \in Keys, charge \in Charges, high_pri \in BOOLEAN,
           want_handle \in BOOLEAN :
          Insert(key, charge, high_pri, want_handle) =>
            LET evicted == EvictFromLRU(Cur, charge).last_reference_list
            IN /\ IsPrefix(evicted, lru_)
               /\ \A e \in Range(evicted) : h'[e].st = "freed"
     /\ \A capacity \in Capacities :
          SetCapacity(capacity) =>
            LET evicted == SetCapacity_locked(Cur, capacity).last_reference_list
            IN /\ IsPrefix(evicted, lru_)
               /\ \A e \in Range(evicted) : h'[e].st = "freed"
               /\ lru_' = SubSeq(lru_, Len(evicted) + 1, Len(lru_))]_vars

\* The older of two entries has been freed while the younger one is listed
\* and fills the capacity.
C11_Witness ==
  /\ high_pri_pool_ratio_ = 0
  /\ \E e, g \in Entries : /\ e < g
                           /\ h[e].st = "freed"
                           /\ g \in Listed
                           /\ usage_ = h[g].charge
                           /\ usage_ + 1 > capacity_

\* The entries a step puts on the LRU list: by a no-handle Insert that is
\* admitted, or by the Release that drops an in-cache entry to refs = 1.
ListedByInsert == {e \in Entries : h[e].st = "unalloc" /\ e \in Range(lru_')}
ListedByRelease == {e \in Entries : h[e].st = "live" /\ e \notin Range(lru_)
                                    /\ e \in Range(lru_')}

\* has_hit tells that the entry has been looked up: a Lookup that finds the
\* entry sets it, and it stays set as long as the entry lives.
HitSinceLookup ==
  /\ \A e \in {f \in Entries : handles'[f] > handles[f] /\ h[f].st = "live"} :
       Table_Lookup(Cur, h[e].key, h[e].hash) = e /\ Lookup(h[e].key)
         => h'[e].has_hit
  /\ \A e \in Entries : h[e].has_hit /\ h'[e].st = "live" => h'[e].has_hit

\* C12, as claimed: with high_pri_pool_ratio > 0 a HIGH entry inserted without
\* a handle is in the high-pri pool when Insert returns, a LOW one is in the
\* low-pri pool; a LOW entry stays low-pri until its first Lookup, and the
\* Release that lists it after a Lookup places it in the high-pri pool.
C12_PoolFollowsPriority ==
  [][high_pri_pool_ratio_ > 0 =>
       /\ \A e \in ListedByInsert : h'[e].in_high_pri_pool <=> h'[e].high_pri
       /\ \A e \in ListedByRelease :
            ~h'[e].high_pri => (h'[e].in_high_pri_pool <=> h'[e].has_hit)
       /\ \A e \in Range(lru_) :
            ~h[e].high_pri /\ ~h[e].has_hit => ~h[e].in_high_pri_pool
       /\ HitSinceLookup]_vars

\* C12, amended: as above, except that an entry whose charge alone exceeds
\* high_pri_pool_capacity is demoted to the low-pri pool by MaintainPoolSize
\* before the operation returns.
C12_PoolFollowsPriorityIfItFits ==
  [][high_pri_pool_ratio_ > 0 =>
       /\ \A e \in ListedByInsert :
            h'[e].in_high_pri_pool <=>
              /\ h'[e].high_pri
              /\ h'[e].charge * RatioDen <= high_pri_pool_capacity_
       /\ \A e \in ListedByRelease :
            ~h'[e].high_pri =>
              (h'[e].in_high_pri_pool <=>
                 /\ h'[e].has_hit
                 /\ h'[e].charge * RatioDen <= high_pri_pool_capacity_)
       /\ \A e \in Range(lru_) :
            ~h[e].high_pri /\ ~h[e].has_hit => ~h[e].in_high_pri_pool
       /\ HitSinceLookup]_vars

\* A LOW entry promoted after its Lookup is listed next to a HIGH entry that
\* was too large for the pool and went to the low-pri pool.
C12_Witness ==
  /\ high_pri_pool_ratio_ > 0
  /\ \E e \in Listed : ~h[e].high_pri /\ h[e].has_hit /\ h[e].in_high_pri_pool
  /\ \E e \in Listed : /\ h[e].high_pri /\ ~h[e].in_high_pri_pool
                       /\ h[e].charge * RatioDen > high_pri_pool_capacity_

\* C13: with strict_capacity_limit true since construction and the capacity
\* never lowered, usage never exceeds capacity, however many entries are
\* pinned.
C13_StrictKeepsUsageWithinCapacity == usage_ <= capacity_

\* The cache is full of pinned entries and an Insert has been refused.
C13_Witness ==
  /\ usage_ = capacity_
  /\ lru_ = <<>>
  /\ \E e \in InCache : handles[e] > 0
  /\ \E e \in Entries : h[e].st = "rejected"

\* The entries waiting in some thread's last_reference_list for the Free()
\* that follows its critical section.
ToBeFreed == UNION {Range(scratch[t]) : t \in Threads}

\* C14, as claimed: every entry an operation passes to Free has refs = 0 and
\* in_cache = false when it is freed.
C14_FreedUnreferencedOutOfCache ==
  \A e \in ToBeFreed : h[e].refs = 0 /\ ~h[e].in_cache

\* C14, amended: every entry passed to Free has refs = 0 and in_cache =
\* false, except the entry a no-handle Insert dropped for want of room: it is
\* freed as it was built, refs = 1 and in_cache = true, having never been in
\* the table nor on the list, and with no handle to it.
C14_FreedUnreferencedOrNeverInserted ==
  \A e \in ToBeFreed :
    \/ h[e].refs = 0 /\ ~h[e].in_cache
    \/ /\ h[e].refs = 1 /\ h[e].in_cache
       /\ handles[e] = 0
       /\ e \notin Listed
       /\ \A k \in Keys : Table_Lookup(Cur, k, Hash(k)) # e

\* Two threads are about to free: one an entry that left the cache, the
\* other the entry its Insert did not admit.
C14_Witness ==
  /\ \E e \in ToBeFreed : h[e].refs = 0 /\ ~h[e].in_cache
  /\ \E e \in ToBeFreed : h[e].refs = 1 /\ h[e].in_cache

\* C15: once an entry's in_cache flag has been cleared, the flag stays clear
\* and the entry is never on the LRU list again, whatever Ref and Release do
\* with its outstanding handles.
C15_OutOfCacheStaysOffList ==
  [][\A e \in Entries :
       h[e].st = "live" /\ ~h[e].in_cache =>
         /\ e \notin Range(lru_)
         /\ e \notin Range(lru_')
         /\ h'[e].st = "live" => ~h'[e].in_cache]_vars

\* An entry out of the cache is down to its last handle, one of two having
\* been released, while the list holds another entry.
C15_Witness ==
  \E e \in Live : /\ ~h[e].in_cache /\ h[e].has_hit
                  /\ h[e].refs = 1 /\ handles[e] = 1
                  /\ Listed # {}


\* C16: when Release drops an in-cache entry to refs = 1 (from 2), then if
\* usage > capacity or force_erase is set the entry leaves the table, its
\* charge leaves usage, it is freed and Release returns true; otherwise it
\* goes on the LRU list, stays in the table and Release returns false. And
\* any Release returns true exactly when it frees the entry. (In every state,
\* of every Release a caller may make there: r.c is the shard it leaves.)
C16_ReleaseErasesOrRelists ==
  \A e \in {f \in Entries : handles[f] >= 1}, force_erase \in BOOLEAN :
    LET r == ReleaseCall(e, force_erase)
        key == h[e].key
    IN /\ h[e].in_cache /\ h[e].refs = 2 =>
            IF usage_ > capacity_ \/ force_erase
            THEN /\ Table_Lookup(r.c, key, Hash(key)) = NULL
                 /\ r.c.usage_ = usage_ - h[e].charge
                 /\ r.c.h[e].st = "freed"
                 /\ r.ret
            ELSE /\ e \notin Range(lru_) /\ e \in Range(r.c.lru_)
                 /\ Table_Lookup(r.c, key, Hash(key)) = e
                 /\ r.c.h[e].st = "live" /\ r.c.h[e].in_cache
                 /\ r.c.h[e].refs = 1
                 /\ r.c.usage_ = usage_
                 /\ ~r.ret
       /\ r.ret <=> r.c.h[e].st = "freed"
       /\ r.ret <=> h[e].refs = 1 \/ (h[e].refs = 2 /\ h[e].in_cache
                                      /\ (usage_ > capacity_ \/ force_erase))

\* Where a Release leaves the shard when it erases the entry it releases
\* because usage is above capacity: that entry freed, and usage still above
\* capacity, held there by the other entry, which is pinned.
C16_Witness ==
  /\ usage_ > capacity_
  /\ \E e \in Entries : h[e].st = "freed"
  /\ \E e \in InCache : handles[e] > 0 /\ h[e].charge = usage_


\* C17: Erase(k) of a pinned entry (refs >= 2) takes it out of the table at
\* once, so that a Lookup(k) finds nothing, and leaves it allocated, out of
\* the cache; the Release of the last handle of an entry out of the cache
\* frees it and returns true, and no earlier Release does. Erase(k) of an
\* unpinned entry unlinks it from the LRU list and frees it in the call.
\* Erase of an absent key changes nothing. (In every state, of every Erase
\* and Release a caller may make there.)
C17_EraseDefersFreeWhilePinned ==
  /\ \A key \in Keys :
       LET e == Table_Lookup(Cur, key, Hash(key))
           r == EraseCall(key)
       IN /\ r.e = e
          /\ IF e = NULL THEN r.c = Cur
             ELSE /\ Table_Lookup(r.c, key, Hash(key)) = NULL
                  /\ IF h[e].refs >= 2
                     THEN /\ r.c.h[e] = [h[e] EXCEPT !.in_cache = FALSE,
                                                     !.refs = @ - 1]
                          /\ r.c.lru_ = lru_
                          /\ handles[e] > 0
                     ELSE /\ e \in Range(lru_) /\ e \notin Range(r.c.lru_)
                          /\ r.c.h[e].st = "freed"
  /\ \A e \in {f \in Entries : handles[f] >= 1 /\ ~h[f].in_cache},
        force_erase \in BOOLEAN :
       LET r == ReleaseCall(e, force_erase)
       IN /\ r.c.h[e].st = "freed" <=> handles[e] = 1
          /\ r.ret <=> handles[e] = 1

\* An erased entry is still held by a caller, its key absent from the table,
\* while another entry has been freed.
C17_Witness ==
  /\ \E e \in Live : /\ ~h[e].in_cache /\ handles[e] > 0
                     /\ Table_Lookup(Cur, h[e].key, h[e].hash) = NULL
  /\ \E e \in Entries : h[e].st = "freed"

\* C18: the assertion in MaintainPoolSize never fails; whenever
\* high_pri_pool_usage exceeds high_pri_pool_capacity, the entry after
\* lru_low_pri is an entry of the list and not the sentinel, so that the
\* demotion loop has an entry to demote.
C18_MaintainPoolSizeNeverFails ==
  /\ "MaintainPoolSize" \notin asserts
  /\ high_pri_pool_usage_ * RatioDen > high_pri_pool_capacity_
       => Pos(Cur, lru_low_pri_) < Len(lru_)

\* The loop has demoted the older of two entries of the high-pri pool: it is
\* where lru_low_pri points, unflagged, and the younger one is in the pool.
C18_Witness ==
  /\ high_pri_pool_ratio_ > 0
  /\ lru_low_pri_ # NULL
  /\ h[lru_low_pri_].high_pri /\ ~h[lru_low_pri_].in_high_pri_pool
  /\ h[lru_low_pri_].charge * RatioDen <= high_pri_pool_capacity_
  /\ \E g \in Listed : h[g].in_high_pri_pool /\ g > lru_low_pri_

\* The entries of the list behind lru_low_pri: the high-pri pool.
AfterLowPri == {lru_[i] : i \in (Pos(Cur, lru_low_pri_) + 1)..Len(lru_)}

\* C19, as claimed: between operations an entry has in_high_pri_pool set
\* only if it is on the LRU list strictly after lru_low_pri; no entry at or
\* before lru_low_pri and no entry off the list carries the flag.
C19_FlagOnlyAfterLowPri ==
  \A e \in Live : h[e].in_high_pri_pool => e \in AfterLowPri

\* C19, amended: among the entries on the LRU list, the flagged ones are
\* those strictly after lru_low_pri, and high_pri_pool_usage is their total
\* charge; an entry taken off the list keeps the flag it had there until it
\* is listed again.
C19_ListedFlagOnlyAfterLowPri ==
  /\ \A e \in Listed : h[e].in_high_pri_pool <=> e \in AfterLowPri
  /\ high_pri_pool_usage_ = Sum(Charge, AfterLowPri)

\* A pinned entry off the list still carries the flag of the high-pri pool,
\* while the pool holds another entry.
C19_Witness ==
  /\ \E e \in Live \ Listed : h[e].in_high_pri_pool /\ handles[e] > 0
  /\ AfterLowPri # {}

\* The entries linked in the table's chains after the step.
InTableAfter == UNION {Range(list_'[b]) : b \in DOMAIN list_'}

\* The entries the step frees.
FreedByStep == {f \in Entries : h[f].st = "live" /\ h'[f].st = "freed"}

\* C20: an admitted Insert(k) that finds an entry for k in the table leaves
\* one entry for k there, the new one, and the old one out of the cache. An
\* unpinned old entry leaves the LRU list and usage and is freed by the
\* Insert. A pinned one stays allocated with its key, charge and handles, its
\* charge still in usage, and is freed only by the Release of its last
\* handle. (The step is an Insert that leaves its new record e live.)
C20_ReplacementDisplacesOld ==
  [][/\ \A e \in Entries :
          h[e].st = "unalloc" /\ h'[e].st = "live" =>
            LET key == h'[e].key
                old == Table_Lookup(Cur, key, Hash(key))
            IN old # NULL =>
                 /\ Table_Lookup(Cur', key, Hash(key)) = e
                 /\ {f \in InTableAfter : h'[f].key = key} = {e}
                 /\ elems_' = Cardinality(InTableAfter)
                 /\ usage_' = usage_ + h'[e].charge - Sum(Charge, FreedByStep)
                 /\ IF h[old].refs = 1
                    THEN /\ old \in Range(lru_) /\ old \notin Range(lru_')
                         /\ old \in FreedByStep
                    ELSE /\ h'[old] = [h[old] EXCEPT !.in_cache = FALSE,
                                                     !.refs = @ - 1]
                         /\ handles'[old] = handles[old]
                         /\ handles[old] > 0
     /\ \A f \in FreedByStep :
          ~h[f].in_cache => handles[f] = 1 /\ handles'[f] = 0]_vars

\* The table holds the new entry for a key whose old entry, replaced while
\* pinned, is still allocated and held by its caller.
C20_Witness ==
  \E old \in Live, e \in InCache :
    /\ old < e
    /\ h[old].key = h[e].key
    /\ ~h[old].in_cache /\ handles[old] > 0
    /\ Table_Lookup(Cur, h[e].key, h[e].hash) = e

\* C21: between operations every entry that is allocated and not freed has
\* refs equal to the number of handles callers hold to it and have not
\* released, plus one while it is in the cache; refs is never negative and
\* the assertion of Unref (refs > 0) has never failed.
C21_RefsCountHandlesAndCache ==
  /\ \A e \in Live :
       /\ h[e].refs = handles[e] + (IF h[e].in_cache THEN 1 ELSE 0)
       /\ h[e].refs >= 0
  /\ "Unref" \notin asserts

\* An entry out of the cache is counted by its one handle alone (refs = 1),
\* beside an entry in the cache counted by its handle and the cache
\* (refs = 2) that a Lookup has pinned.
C21_Witness ==
  /\ \E e \in Live : ~h[e].in_cache /\ handles[e] = 1 /\ h[e].refs = 1
  /\ \E e \in InCache : handles[e] = 1 /\ h[e].refs = 2 /\ h[e].has_hit

\* The entries on the list in the low-pri pool and in the high-pri pool.
ListedLowPri == {e \in Listed : ~h[e].in_high_pri_pool}
ListedHighPri == {e \in Listed : h[e].in_high_pri_pool}

\* What EvictFromLRU would evict here, in order: called by SetCapacity with
\* one of the capacities or with 0, which empties the list, or by Insert
\* with one of the charges.
Evictions ==
  {SetCapacity_locked(Cur, capacity).last_reference_list :
     capacity \in Capacities \cup {0}}
  \cup {EvictFromLRU(Cur, charge).last_reference_list : charge \in Charges}

\* C22: with high_pri_pool_ratio > 0, every listed low-pri entry lies before
\* every listed high-pri entry in eviction order, and an eviction that takes
\* an entry of the high-pri pool has taken every listed low-pri entry before
\* it. (In every state, of every eviction a caller may cause there.)
C22_LowPriEvictedBeforeHighPri ==
  high_pri_pool_ratio_ > 0 /\ ListedHighPri # {} =>
    /\ \A e \in ListedLowPri, g \in ListedHighPri : Pos(Cur, e) < Pos(Cur, g)
    /\ \A evicted \in Evictions :
         \A i \in 1..Len(evicted) :
           evicted[i] \in ListedHighPri =>
             ListedLowPri \subseteq {evicted[j] : j \in 1..(i - 1)}

\* Both pools hold a listed entry and an eviction is due that does not stop
\* in the low-pri region: it goes on to take an entry of the high-pri pool.
C22_Witness ==
  /\ high_pri_pool_ratio_ > 0
  /\ ListedLowPri # {}
  /\ \E evicted \in Evictions :
       \E i \in 1..Len(evicted) : evicted[i] \in ListedHighPri

====
